---- MODULE Spec2Model ----
(***************************************************************************)
(* Model of api/app.py: the Flask service that downloads a spreadsheet     *)
(* from Google Drive into /tmp/<file_id>.xlsx, writes up to three cells of *)
(* the sheet 'Project Setup Form' and uploads the file again.              *)
(*                                                                         *)
(* Strings that the code concatenates or tests for emptiness (file ids,    *)
(* field values, paths) are sequences of tokens: "" is <<>>, and           *)
(* f"/tmp/{file_id}.xlsx" is <<"/tmp/">> \o file_id \o <<".xlsx">>.         *)
(* A dict is a function whose DOMAIN is the set of keys present.           *)
(***************************************************************************)
EXTENDS Naturals, Sequences, FiniteSets, TLC

\* ------------------------------------------------------------------ bounds

\* Number of requests the service receives in one behaviour.
MaxRequests == 2

\* ------------------------------------------------------ program constants

\* download_excel: `if downloaded_size < 5000`
DOWNLOAD_MIN_SIZE == 5000

\* upload_excel: `if file_size < 5000`
UPLOAD_MIN_SIZE == 5000

\* diagnose_excel_file: `if results["file_size"] < 2000`
INSPECT_MIN_SIZE == 2000

\* EXCEL_CELL_MAP: input field -> cell of sheet 'Project Setup Form'
EXCEL_CELL_MAP == [projectName |-> "D29", projectNumber |-> "D8", branch |-> "D6"]

\* The key of the document identifier in the request mapping.
FILE_ID_KEY == "Current File ID"

\* ------------------------------------------------------------ input sets

\* The two request slots that execute concurrently (Flask serves requests in
\* threads, and POST / starts one Thread per accepted request).
Runs == {"r1", "r2"}

\* Document identifiers sent by callers.
FileIds == {<<"abc">>, <<"xyz">>}

\* Stands for "the request has no identifier key" in Request below.
NoKey == <<"<no key>">>

\* The request mapping with the given identifier (none when id is NoKey)
\* and the given other keys.
Request(id, fields) ==
    IF id = NoKey THEN fields ELSE (FILE_ID_KEY :> id) @@ fields

NoFields == <<>>
AllFields ==
    [projectName |-> <<"Tower One">>, projectNumber |-> <<"P-8">>,
     branch |-> <<"North">>, notes |-> <<"memo">>]

\* The request mappings callers send: no body, no or an empty identifier, an
\* identifier alone, with mapped fields that are empty, with one mapped
\* field, with every mapped field and a key the service does not know.
Requests ==
    { Request(NoKey, NoFields),
      Request(NoKey, [projectName |-> <<"Tower One">>]),
      Request(<<>>, AllFields),
      Request(<<"abc">>, NoFields),
      Request(<<"abc">>, [projectName |-> <<>>, branch |-> <<>>, notes |-> <<"memo">>]),
      Request(<<"abc">>, [projectName |-> <<"Tower One">>]),
      Request(<<"abc">>, AllFields),
      Request(<<"xyz">>, AllFields) }

\* The empty mapping (also stands for a missing body: both are falsy).
NoData == <<>>

\* ---------------------------------------------------------------- documents

\* Cells of sheet 'Project Setup Form' that the model tracks: the three
\* mapped anchor cells and one cell the service never addresses.
Cells == {"D29", "D8", "D6", "A1"}

\* A cell holds a formula (<<>> when it is a plain value) and a value (for a
\* formula cell, the value Excel cached the last time it computed it).
PlainCell(v) == [f |-> <<>>, v |-> v]
FormulaCell(f, v) == [f |-> f, v |-> v]

BlankCells == [c \in Cells |-> PlainCell(<<>>)]

\* The template on the remote store: blank mapped cells, a formula in A1.
TemplateCells ==
    [c \in Cells |-> IF c = "A1" THEN FormulaCell(<<"=TODAY()">>, <<"2024-01-01">>)
                                 ELSE PlainCell(<<>>)]

\* File sizes: just below the threshold, and exactly at it.
Sizes == {DOWNLOAD_MIN_SIZE - 1, DOWNLOAD_MIN_SIZE}

\* A document (remote) or a file (local): exists, is a well-formed workbook
\* archive (zip), its byte size, whether sheet 'Project Setup Form' is in it,
\* and that sheet's cells. A local file also has an identity (ino, its
\* inode number): a file that is removed and then created again at the same
\* path is another file.
NoFile == [exists |-> FALSE, zip |-> FALSE, size |-> 0, sheet |-> FALSE,
           cells |-> BlankCells, ino |-> 0]

GoodDoc == [exists |-> TRUE, zip |-> TRUE, size |-> DOWNLOAD_MIN_SIZE,
            sheet |-> TRUE, cells |-> TemplateCells, ino |-> 0]
NoSheetDoc == [GoodDoc EXCEPT !.sheet = FALSE, !.cells = BlankCells]
SmallDoc == [GoodDoc EXCEPT !.size = DOWNLOAD_MIN_SIZE - 1]
NotExcelDoc == [NoFile EXCEPT !.exists = TRUE, !.size = DOWNLOAD_MIN_SIZE]

\* A scratch file left at /tmp/<id>.xlsx by an earlier process: a workbook
\* with other content, longer than any document of the remote store. Its
\* inode number is none that a file created later is given.
StaleCells == [BlankCells EXCEPT !["D29"] = PlainCell(<<"Old Tower">>),
                                 !["A1"] = PlainCell(<<"stale">>)]
StaleFile(id) ==
    [exists |-> TRUE, zip |-> TRUE, size |-> DOWNLOAD_MIN_SIZE + 1, sheet |-> TRUE,
     cells |-> StaleCells, ino |-> IF id = <<"abc">> THEN 8 ELSE 9]

\* What the remote store may hold for an identifier when the service starts.
InitialDocs(id) ==
    IF id = <<"abc">> THEN {GoodDoc, NoSheetDoc, SmallDoc, NotExcelDoc}
                      ELSE {NoFile}

\* ----------------------------------------------------------------- state

VARIABLES
    pc,             \* where each request's handler / background thread is
    entry,          \* the entry point that received it: "/" or "/update-excel"
    data,           \* the parsed request mapping
    temp_file,      \* local temp_file (<<>> while not assigned)
    update_success, \* local update_success (what update_excel returned)
    wb,             \* update_excel's in-memory workbook: the sheet's cells
    fh,             \* the file (ino) download_excel's open handle fh refers to
    err,            \* the exception being propagated ("" when none)
    response,       \* the HTTP response sent to the caller (NoResponse if none)
    trace,          \* history: the calls this run has made, in order
    loaded,         \* history: the file update_excel opened
    fs,             \* the local filesystem: path -> file
    remote,         \* the remote store: file id -> document
    received,       \* number of requests received so far
    inspected,      \* the file at the path given to diagnose_excel_file
    report          \* what diagnose_excel_file returned (NoReport before)

vars == <<pc, entry, data, temp_file, update_success, wb, fh, err, response,
          trace, loaded, fs, remote, received, inspected, report>>

locals == <<entry, data, temp_file, update_success, wb, loaded>>

\* --------------------------------------------------------- pure functions

\* temp_file = f"/tmp/{file_id}.xlsx"
TempFile(file_id) == <<"/tmp/">> \o file_id \o <<".xlsx">>

Paths == {TempFile(id) : id \in FileIds}

\* diagnose_endpoint: temp_file = f"/tmp/{file_id}_diagnostic.xlsx". The
\* literal "_diagnostic.xlsx" is the two tokens "_diagnostic" and ".xlsx".
DiagnosticFile(file_id) == <<"/tmp/">> \o file_id \o <<"_diagnostic", ".xlsx">>

\* dict.get(key): None is the empty value <<>> here, since every caller only
\* tests the result for truthiness.
Get(d, k) == IF k \in DOMAIN d THEN d[k] ELSE <<>>

\* Mutant: only the emptiness of the mapping is checked.
Validate_NoIdCheck(d) ==
    IF DOMAIN d = {} THEN "No data provided" ELSE "ok"

\* The input validation shared by root() and update_excel_api().
Validate(d) ==
    IF DOMAIN d = {} THEN "No data provided"
    ELSE IF Get(d, FILE_ID_KEY) = <<>> THEN "No file ID provided"
    ELSE "ok"

\* `field in input_data and input_data[field]`
Mappable(input_data, field) ==
    field \in DOMAIN input_data /\ input_data[field] # <<>>

\* Mutant: counts a mapped field that is present, whatever its value.
UpdatesCount_PresentOnly(input_data) ==
    Cardinality({field \in DOMAIN EXCEL_CELL_MAP : field \in DOMAIN input_data})

\* update_excel: updates_count
UpdatesCount(input_data) ==
    Cardinality({field \in DOMAIN EXCEL_CELL_MAP : Mappable(input_data, field)})

\* update_excel: the updates dictionary, cell_ref -> value
Updates(input_data) ==
    LET fields == {field \in DOMAIN EXCEL_CELL_MAP : Mappable(input_data, field)}
        refs == {EXCEL_CELL_MAP[field] : field \in fields}
    IN  [cell_ref \in refs |->
            input_data[CHOOSE field \in fields : EXCEL_CELL_MAP[field] = cell_ref]]

\* openpyxl.load_workbook(path, data_only=True): every formula cell is read
\* as the value cached for it; the formula itself is not loaded.
LoadWorkbook(file) == [c \in Cells |-> PlainCell(file.cells[c].v)]

\* `sheet[cell_ref] = value` for every entry of updates
ApplyUpdates(sheet, updates) ==
    [c \in Cells |-> IF c \in DOMAIN updates THEN PlainCell(updates[c]) ELSE sheet[c]]

\* download_excel: `downloaded_size < 5000`
DownloadTooSmall(size) == size < DOWNLOAD_MIN_SIZE

\* Mutant: the upload accepts a file one byte under the threshold.
UploadTooSmall_OffByOne(size) == size < UPLOAD_MIN_SIZE - 1

\* upload_excel: `file_size < 5000`
UploadTooSmall(size) == size < UPLOAD_MIN_SIZE

\* Mutant: the upload is not guarded by `if update_success`.
AfterStage_UnguardedUpload(stage, result) ==
    CASE stage = "authenticate"   -> "dl_meta"
      [] stage = "download_excel" -> "mu_load"
      [] stage = "update_excel"   -> "ul_meta"
      [] stage = "upload_excel"   -> "cl_exists"

\* Mutant: the upload is called before the update, the update after it.
AfterStage_UploadFirst(stage, result) ==
    CASE stage = "authenticate"   -> "dl_meta"
      [] stage = "download_excel" -> "ul_meta"
      [] stage = "upload_excel"   -> "mu_load"
      [] stage = "update_excel"   -> "cl_exists"

\* The order of the stages in update_excel_api / process_excel_update: the
\* statement that runs after `stage` returned `result`.
AfterStage(stage, result) ==
    CASE stage = "authenticate"   -> "dl_meta"
      [] stage = "download_excel" -> "mu_load"
      [] stage = "update_excel"   -> IF result THEN "ul_meta" ELSE "cl_exists"
      [] stage = "upload_excel"   -> "cl_exists"

\* jsonify(...) with its status code (200 when the handler gives none).
Response(status, message, code) == [status |-> status, message |-> message, code |-> code]
NoResponse == Response("", "", 0)

\* ------------------------------------------------------ diagnose_excel_file

\* The file at the path given to diagnose_excel_file, as it sees it: whether
\* it exists, its size, how zipfile.ZipFile(path) ends ("zip": opens,
\* "badzip": BadZipFile, "error": another exception, "vanishes": the file is
\* removed right after the existence test, so that getsize raises), and the
\* archive's member names. A name is a sequence of tokens.
MemberNames ==
    { <<"[Content_Types].xml">>, <<"xl/workbook.xml">>,
      <<"xl/worksheets/sheet", "1.xml">>, <<"xl/", "vbaProject", ".bin">>,
      <<"customXml", "/item1.xml">> }

NoInspected == [exists |-> FALSE, size |-> 0, kind |-> "badzip", names |-> {}]

InspectedFiles ==
    {NoInspected}
    \cup [exists : {TRUE}, size : {INSPECT_MIN_SIZE - 1, INSPECT_MIN_SIZE},
          kind : {"zip"}, names : SUBSET MemberNames]
    \cup [exists : {TRUE}, size : {INSPECT_MIN_SIZE - 1, INSPECT_MIN_SIZE},
          kind : {"badzip", "error", "vanishes"}, names : {{}}]

\* str.startswith(prefix), `token in str`
StartsWith(name, prefix) == Len(name) >= 1 /\ name[1] = prefix
Contains(name, token) == \E i \in DOMAIN name : name[i] = token

\* diagnose_excel_file: the results dictionary as it is first built.
EmptyResults ==
    [file_exists |-> FALSE, file_size |-> 0, is_valid_zip |-> FALSE,
     content_types |-> FALSE, workbook_xml |-> FALSE, worksheets |-> {},
     custom_properties |-> FALSE, vba_content |-> FALSE, errors |-> <<>>]

NoReport == <<>>

\* The `with zipfile.ZipFile(file_path, 'r')` block on an archive.
ExamineZip(results, file_list) ==
    LET worksheets == {f \in file_list : StartsWith(f, "xl/worksheets/sheet")}
    IN  [results EXCEPT
           !.is_valid_zip = TRUE,
           !.content_types = <<"[Content_Types].xml">> \in file_list,
           !.workbook_xml = <<"xl/workbook.xml">> \in file_list,
           !.worksheets = worksheets,
           !.vba_content = \E f \in file_list : Contains(f, "vbaProject"),
           !.custom_properties = \E f \in file_list : Contains(f, "customXml"),
           !.errors = @ \o (IF <<"[Content_Types].xml">> \in file_list
                              THEN <<>> ELSE <<"Missing [Content_Types].xml">>)
                       \o (IF <<"xl/workbook.xml">> \in file_list
                              THEN <<>> ELSE <<"Missing xl/workbook.xml">>)
                       \o (IF worksheets # {} THEN <<>> ELSE <<"No worksheets found">>)]

\* The "Final assessment": the assessment key is added to results.
Assessed(results) ==
    results @@ ("assessment" :>
                  IF results.errors = <<>>
                  THEN <<"File appears to be a valid Excel file">>
                  ELSE <<"File has ", Len(results.errors), " issues">>)

\* diagnose_excel_file(file_path): the dictionary it returns.
DiagnoseExcelFile(file) ==
    IF ~file.exists
    THEN [EmptyResults EXCEPT !.errors = <<"File does not exist">>]
    ELSE IF file.kind = "vanishes"
    THEN [EmptyResults EXCEPT !.file_exists = TRUE, !.errors = <<"Diagnostic error">>]
    ELSE LET sized == [EmptyResults EXCEPT
                          !.file_exists = TRUE,
                          !.file_size = file.size,
                          !.errors = IF file.size < INSPECT_MIN_SIZE
                                     THEN <<"File too small">> ELSE <<>>]
         IN  Assessed(
               CASE file.kind = "zip" -> ExamineZip(sized, file.names)
                 [] file.kind = "badzip" ->
                      [sized EXCEPT !.errors =
                         Append(@, "Not a valid ZIP file (Excel files are ZIP archives)")]
                 [] file.kind = "error" ->
                      [sized EXCEPT !.errors = Append(@, "Error examining ZIP structure")])

\* ------------------------------------------------------------------- Init

\* No request has been received: every slot is idle.
InitRuns ==
    /\ pc = [r \in Runs |-> "idle"]
    /\ entry = [r \in Runs |-> ""]
    /\ data = [r \in Runs |-> NoData]
    /\ temp_file = [r \in Runs |-> <<>>]
    /\ update_success = [r \in Runs |-> FALSE]
    /\ wb = [r \in Runs |-> BlankCells]
    /\ fh = [r \in Runs |-> 0]
    /\ err = [r \in Runs |-> ""]
    /\ response = [r \in Runs |-> NoResponse]
    /\ trace = [r \in Runs |-> <<>>]
    /\ loaded = [r \in Runs |-> NoFile]
    /\ received = 0
    /\ report = NoReport

InitRemote ==
    remote \in {m \in [FileIds -> {GoodDoc, NoSheetDoc, SmallDoc, NotExcelDoc, NoFile}] :
                  \A id \in FileIds : m[id] \in InitialDocs(id)}

\* The service starts with an empty /tmp.
Init ==
    /\ InitRuns
    /\ inspected = NoInspected
    /\ fs = [p \in Paths |-> NoFile]
    /\ InitRemote

\* The service starts with /tmp as an earlier process left it: at any scratch
\* path there may be a stale file (see ExceptRemove: a handler that crashed
\* leaves its file behind; so does a process that was killed).
InitStale ==
    /\ InitRuns
    /\ inspected = NoInspected
    /\ fs \in {f \in [Paths -> {NoFile} \cup {StaleFile(id) : id \in FileIds}] :
                \A id \in FileIds : f[TempFile(id)] \in {NoFile, StaleFile(id)}}
    /\ InitRemote

\* ---------------------------------------------------------------- helpers

\* A slot is free before its first request and after its request has ended;
\* a request is given to the first free slot.
Ended(r) == pc[r] \in {"done", "crashed"}
Free(r) == pc[r] = "idle" \/ Ended(r)
FirstFree(r) == Free(r) /\ (r = "r1" \/ ~Free("r1"))

\* The handler's local file_id: data.get("Current File ID"), and
\* request.args.get('file_id') in diagnose_endpoint.
file_id(r) ==
    IF entry[r] = "/diagnose" THEN Get(data[r], "file_id") ELSE Get(data[r], FILE_ID_KEY)

Goto(r, next) == pc' = [pc EXCEPT ![r] = next]

Log(r, event) == trace' = [trace EXCEPT ![r] = Append(@, event)]

\* The statement that runs after `stage` returned `result` to the handler
\* of run r: diagnose_endpoint calls authenticate, asks for the metadata,
\* calls download_excel and diagnose_excel_file, and cleans up.
AfterCall(r, stage, result) ==
    IF entry[r] = "/diagnose"
    THEN CASE stage = "authenticate"        -> "dg_meta"
           [] stage = "download_excel"      -> "dg_inspect"
           [] stage = "diagnose_excel_file" -> "cl_exists"
    ELSE AfterStage(stage, result)

\* The except clause that catches an exception raised where run r is: the
\* handler's `except Exception as e`, and in diagnose_endpoint the inner
\* `except Exception as e` around the call of download_excel.
Handler(r) ==
    IF entry[r] = "/diagnose" /\ pc[r] \in {"dl_meta", "dl_open", "dl_chunks", "dl_size"}
    THEN "dg_failed"
    ELSE "ex_exists"

\* An exception raised inside the try block: control moves to that clause.
Raise(r, e) ==
    /\ pc' = [pc EXCEPT ![r] = Handler(r)]
    /\ err' = [err EXCEPT ![r] = e]

\* The handler returns normally after the clean up of the try block.
\* update_excel_api answers; process_excel_update just ends;
\* diagnose_endpoint answers with download_success and diagnostic_results.
ReturnSuccess(r) ==
    /\ pc' = [pc EXCEPT ![r] = "done"]
    /\ response' =
         IF entry[r] = "/update-excel"
         THEN [response EXCEPT ![r] =
                 Response("success",
                          IF update_success[r] THEN "Excel file updated successfully"
                                               ELSE "No updates were made",
                          200)]
         ELSE IF entry[r] = "/diagnose"
         THEN [response EXCEPT ![r] = Response("", "diagnostic_results", 200)]
         ELSE response

\* The handler returns from its except block: 500 with str(e) (the answers
\* of diagnose_endpoint have no status key).
ReturnError(r) ==
    /\ pc' = [pc EXCEPT ![r] = "done"]
    /\ response' =
         IF entry[r] = "/update-excel"
         THEN [response EXCEPT ![r] = Response("error", err[r], 500)]
         ELSE IF entry[r] = "/diagnose"
         THEN [response EXCEPT ![r] = Response("", err[r], 500)]
         ELSE response

\* The fresh locals of a handler that starts on request d.
Start(r, d, route) ==
    /\ entry' = [entry EXCEPT ![r] = route]
    /\ data' = [data EXCEPT ![r] = d]
    /\ update_success' = [update_success EXCEPT ![r] = FALSE]
    /\ wb' = [wb EXCEPT ![r] = BlankCells]
    /\ fh' = [fh EXCEPT ![r] = 0]
    /\ loaded' = [loaded EXCEPT ![r] = NoFile]
    /\ err' = [err EXCEPT ![r] = ""]
    /\ trace' = [trace EXCEPT ![r] = <<>>]
    /\ received' = received + 1
    /\ UNCHANGED <<fs, remote, inspected, report>>

\* ------------------------------------------------------------ entry points

\* root(), POST: validate, start process_excel_update in a Thread, answer
\* "accepted" at once.
RootPost(r, d) ==
    /\ FirstFree(r)
    /\ received < MaxRequests
    /\ Start(r, d, "/")
    /\ IF Validate(d) = "ok"
       THEN /\ temp_file' = [temp_file EXCEPT ![r] = TempFile(Get(d, FILE_ID_KEY))]
            /\ pc' = [pc EXCEPT ![r] = "auth"]
            /\ response' = [response EXCEPT ![r] =
                              Response("accepted", "Request accepted for processing", 200)]
       ELSE /\ temp_file' = [temp_file EXCEPT ![r] = <<>>]
            /\ pc' = [pc EXCEPT ![r] = "done"]
            /\ response' = [response EXCEPT ![r] = Response("error", Validate(d), 400)]

\* update_excel_api(): validate, then run the pipeline in the handler.
UpdateExcelApi(r, d) ==
    /\ FirstFree(r)
    /\ received < MaxRequests
    /\ Start(r, d, "/update-excel")
    /\ IF Validate(d) = "ok"
       THEN /\ temp_file' = [temp_file EXCEPT ![r] = TempFile(Get(d, FILE_ID_KEY))]
            /\ pc' = [pc EXCEPT ![r] = "auth"]
            /\ response' = [response EXCEPT ![r] = NoResponse]
       ELSE /\ temp_file' = [temp_file EXCEPT ![r] = <<>>]
            /\ pc' = [pc EXCEPT ![r] = "done"]
            /\ response' = [response EXCEPT ![r] = Response("error", Validate(d), 400)]

\* ------------------------------------------------------------ authenticate

\* authenticate(): fails when GOOGLE_SERVICE_ACCOUNT_JSON is unset or invalid.
Authenticate(r) ==
    /\ pc[r] = "auth"
    /\ Log(r, "authenticate")
    /\ \E ok \in BOOLEAN :
         IF ok THEN Goto(r, AfterCall(r, "authenticate", TRUE)) /\ UNCHANGED err
               ELSE Raise(r, "Authentication error")
    /\ UNCHANGED <<locals, fh, response, fs, remote, received, inspected, report>>

\* ---------------------------------------------------------- download_excel

\* Mutant: a failure of the metadata request is logged and ignored.
DownloadMetadata_NonFatal(r) ==
    /\ pc[r] = "dl_meta"
    /\ Log(r, "dl_meta")
    /\ Goto(r, "dl_open")
    /\ UNCHANGED <<locals, fh, err, response, fs, remote, received, inspected, report>>

\* service.files().get(fileId).execute(): any failure is re-raised as the
\* ValueError "Unable to access file with ID ...".
DownloadMetadata(r) ==
    /\ pc[r] = "dl_meta"
    /\ Log(r, "dl_meta")
    /\ \E reachable \in BOOLEAN :
         IF reachable /\ remote[file_id(r)].exists
         THEN Goto(r, "dl_open") /\ UNCHANGED err
         ELSE Raise(r, "Unable to access file with ID")
    /\ UNCHANGED <<locals, fh, response, fs, remote, received, inspected, report>>

\* The inode number given to a file that is created: the least one that no
\* file and no open handle refers to.
FreshIno ==
    LET used == {fs[p].ino : p \in DOMAIN fs} \cup {fh[r] : r \in Runs}
        n == Cardinality(DOMAIN fs) + Cardinality(Runs) + 1
    IN  CHOOSE i \in 1..n : i \notin used /\ \A j \in 1..n : j < i => j \in used

\* Mutant: the file is opened without truncation (as with 'r+b' or 'ab').
OpenForWriting_NoTruncate(file, fresh) ==
    IF file.exists THEN file ELSE [NoFile EXCEPT !.exists = TRUE, !.ino = fresh]

\* open(path, 'wb'): truncates the file at path, or creates it when there is
\* none. The result is the empty file.
OpenForWriting(file, fresh) ==
    [NoFile EXCEPT !.exists = TRUE, !.ino = IF file.exists THEN file.ino ELSE fresh]

\* `with open(download_path, 'wb') as fh`
DownloadOpen(r) ==
    /\ pc[r] = "dl_open"
    /\ Log(r, "dl_open")
    /\ fs' = [fs EXCEPT ![temp_file[r]] = OpenForWriting(@, FreshIno)]
    /\ fh' = [fh EXCEPT ![r] = fs'[temp_file[r]].ino]
    /\ Goto(r, "dl_chunks")
    /\ UNCHANGED <<locals, err, response, remote, received, inspected, report>>

\* Bytes written through a handle reach the file at path only while that
\* file is still the one the handle was opened on (not removed since).
\* They are written from offset 0 on: a file that held more bytes than are
\* written keeps its tail, and is no archive any more.
WriteThrough(file, handle, content) ==
    IF file.exists /\ file.ino = handle
    THEN IF file.size > content.size
         THEN [content EXCEPT !.ino = handle, !.zip = FALSE, !.size = file.size]
         ELSE [content EXCEPT !.ino = handle]
    ELSE file

\* The next_chunk() loop: the whole document is written through fh, or the
\* transfer fails and the file keeps what it held.
DownloadChunks(r) ==
    /\ pc[r] = "dl_chunks"
    /\ Log(r, "dl_media")
    /\ \E ok \in BOOLEAN :
         IF ok /\ remote[file_id(r)].exists
         THEN /\ fs' = [fs EXCEPT ![temp_file[r]] = WriteThrough(@, fh[r], remote[file_id(r)])]
              /\ Goto(r, "dl_size")
              /\ UNCHANGED err
         ELSE /\ Raise(r, "Download transfer failed")
              /\ UNCHANGED fs
    /\ fh' = [fh EXCEPT ![r] = 0]
    /\ UNCHANGED <<locals, response, remote, received, inspected, report>>

\* os.path.getsize(download_path) and the minimum size check; True is returned.
DownloadSizeCheck(r) ==
    /\ pc[r] = "dl_size"
    /\ IF ~fs[temp_file[r]].exists
       THEN Raise(r, "FileNotFoundError") /\ Log(r, "dl_size")
       ELSE IF DownloadTooSmall(fs[temp_file[r]].size)
       THEN Raise(r, "Downloaded file appears corrupt (too small)") /\ Log(r, "dl_size")
       ELSE /\ Goto(r, AfterCall(r, "download_excel", TRUE))
            /\ trace' = [trace EXCEPT ![r] = @ \o <<"dl_size", "dl_return">>]
            /\ UNCHANGED err
    /\ UNCHANGED <<locals, fh, response, fs, remote, received, inspected, report>>

\* ------------------------------------------------------------ update_excel

\* openpyxl.load_workbook(path, ...) succeeds on a well-formed workbook file.
Loadable(file) == file.exists /\ file.zip

\* Mutant: the mappable fields are counted before the sheet is required.
UpdateLoad_CountFirst(r) ==
    /\ pc[r] = "mu_load"
    /\ LET file == fs[temp_file[r]] IN
       IF ~Loadable(file)
       THEN /\ Raise(r, "load_workbook failed")
            /\ Log(r, "mu_load")
            /\ UNCHANGED <<update_success, wb, loaded>>
       ELSE IF UpdatesCount(data[r]) = 0
       THEN /\ update_success' = [update_success EXCEPT ![r] = FALSE]
            /\ Goto(r, AfterStage("update_excel", FALSE))
            /\ trace' = [trace EXCEPT ![r] = @ \o <<"mu_load", "mu_noop">>]
            /\ UNCHANGED <<err, wb, loaded>>
       ELSE IF ~file.sheet
       THEN /\ Raise(r, "Required sheet 'Project Setup Form' not found in the Excel file")
            /\ Log(r, "mu_load")
            /\ UNCHANGED <<update_success, wb, loaded>>
       ELSE /\ wb' = [wb EXCEPT ![r] = ApplyUpdates(LoadWorkbook(file), Updates(data[r]))]
            /\ Goto(r, "mu_save")
            /\ Log(r, "mu_load")
            /\ loaded' = [loaded EXCEPT ![r] = file]
            /\ UNCHANGED <<update_success, err>>
    /\ UNCHANGED <<entry, data, temp_file, fh, response, fs, remote, received,
                   inspected, report>>

\* update_excel up to `wb.save(path)`: load the workbook, require the sheet,
\* count the mappable fields (False is returned when there are none), apply
\* the updates to the sheet in memory.
UpdateLoad(r) ==
    /\ pc[r] = "mu_load"
    /\ LET file == fs[temp_file[r]] IN
       IF ~Loadable(file)
       THEN /\ Raise(r, "load_workbook failed")
            /\ Log(r, "mu_load")
            /\ UNCHANGED <<update_success, wb, loaded>>
       ELSE IF ~file.sheet
       THEN /\ Raise(r, "Required sheet 'Project Setup Form' not found in the Excel file")
            /\ Log(r, "mu_load")
            /\ UNCHANGED <<update_success, wb, loaded>>
       ELSE IF UpdatesCount(data[r]) = 0
       THEN /\ update_success' = [update_success EXCEPT ![r] = FALSE]
            /\ Goto(r, AfterStage("update_excel", FALSE))
            /\ trace' = [trace EXCEPT ![r] = @ \o <<"mu_load", "mu_noop">>]
            /\ UNCHANGED <<err, wb, loaded>>
       ELSE /\ wb' = [wb EXCEPT ![r] = ApplyUpdates(LoadWorkbook(file), Updates(data[r]))]
            /\ Goto(r, "mu_save")
            /\ Log(r, "mu_load")
            /\ loaded' = [loaded EXCEPT ![r] = file]
            /\ UNCHANGED <<update_success, err>>
    /\ UNCHANGED <<entry, data, temp_file, fh, response, fs, remote, received, inspected, report>>

\* The file wb.save(path) writes: the workbook in memory, serialised anew (so
\* of a size of its own). The path is opened for writing as in open(.., 'wb').
SavedFile(file, sheet, size, wellformed, fresh) ==
    [OpenForWriting(file, fresh) EXCEPT
        !.zip = wellformed, !.size = size, !.sheet = TRUE, !.cells = sheet]

\* wb.save(path); wb.close(). The save raises and leaves a truncated file, or
\* returns having written a file that is well-formed or not.
UpdateSave(r) ==
    /\ pc[r] = "mu_save"
    /\ Log(r, "mu_save")
    /\ \E outcome \in {"saved", "corrupt", "raise"}, size \in Sizes :
         IF outcome = "raise"
         THEN /\ fs' = [fs EXCEPT ![temp_file[r]] = OpenForWriting(@, FreshIno)]
              /\ Raise(r, "save failed")
              /\ wb' = [wb EXCEPT ![r] = BlankCells]
              /\ loaded' = [loaded EXCEPT ![r] = NoFile]
         ELSE /\ fs' = [fs EXCEPT ![temp_file[r]] =
                          SavedFile(@, wb[r], size, outcome = "saved", FreshIno)]
              /\ Goto(r, "mu_verify")
              /\ UNCHANGED <<err, wb, loaded>>
    /\ UNCHANGED <<entry, data, temp_file, update_success, fh, response, remote, received, inspected, report>>

\* The verification: load_workbook(path) again, close, return True.
UpdateVerify(r) ==
    /\ pc[r] = "mu_verify"
    /\ IF Loadable(fs[temp_file[r]])
       THEN /\ update_success' = [update_success EXCEPT ![r] = TRUE]
            /\ Goto(r, AfterStage("update_excel", TRUE))
            /\ trace' = [trace EXCEPT ![r] = @ \o <<"mu_verify", "mu_updated">>]
            /\ UNCHANGED err
       ELSE /\ Raise(r, "Excel file appears to be corrupted after save operation")
            /\ Log(r, "mu_verify")
            /\ UNCHANGED update_success
    /\ wb' = [wb EXCEPT ![r] = BlankCells]
    /\ loaded' = [loaded EXCEPT ![r] = NoFile]
    /\ UNCHANGED <<entry, data, temp_file, fh, response, fs, remote, received, inspected, report>>

\* ------------------------------------------------------------ upload_excel

\* Mutant: the size of the local file is checked before the metadata request.
UploadMetadata_SizeFirst(r) ==
    /\ pc[r] = "ul_meta"
    /\ IF fs[temp_file[r]].exists /\ UploadTooSmall(fs[temp_file[r]].size)
       THEN /\ Raise(r, "File appears too small to be a valid Excel file")
            /\ Log(r, "ul_size")
       ELSE /\ Log(r, "ul_meta")
            /\ \E reachable \in BOOLEAN :
                 IF reachable /\ remote[file_id(r)].exists
                 THEN Goto(r, "ul_size") /\ UNCHANGED err
                 ELSE Raise(r, "File metadata request failed")
    /\ UNCHANGED <<locals, fh, response, fs, remote, received, inspected, report>>

\* service.files().get(fileId).execute() at the head of upload_excel.
UploadMetadata(r) ==
    /\ pc[r] = "ul_meta"
    /\ Log(r, "ul_meta")
    /\ \E reachable \in BOOLEAN :
         IF reachable /\ remote[file_id(r)].exists
         THEN Goto(r, "ul_size") /\ UNCHANGED err
         ELSE Raise(r, "File metadata request failed")
    /\ UNCHANGED <<locals, fh, response, fs, remote, received, inspected, report>>

\* os.path.getsize(path) and the minimum size check.
UploadSizeCheck(r) ==
    /\ pc[r] = "ul_size"
    /\ Log(r, "ul_size")
    /\ IF ~fs[temp_file[r]].exists
       THEN Raise(r, "FileNotFoundError")
       ELSE IF UploadTooSmall(fs[temp_file[r]].size)
       THEN Raise(r, "File appears too small to be a valid Excel file")
       ELSE Goto(r, "ul_chunks") /\ UNCHANGED err
    /\ UNCHANGED <<locals, fh, response, fs, remote, received, inspected, report>>

\* Mutant: the chunks sent before a failure already replace the document.
Uploaded_NotAtomic(doc, file, completed) ==
    IF completed THEN [file EXCEPT !.ino = 0]
    ELSE [file EXCEPT !.ino = 0, !.zip = FALSE, !.size = 0]

\* What files().update(media_body) leaves on the remote store: the document
\* is replaced by the uploaded bytes when the last chunk is accepted, and
\* keeps its content when the transfer fails before that.
Uploaded(doc, file, completed) ==
    IF completed THEN [file EXCEPT !.ino = 0] ELSE doc

\* MediaFileUpload(path) and the next_chunk() loop; the response is returned.
UploadChunks(r) ==
    /\ pc[r] = "ul_chunks"
    /\ IF ~fs[temp_file[r]].exists
       THEN Raise(r, "FileNotFoundError") /\ Log(r, "ul_open") /\ UNCHANGED remote
       ELSE \E completed \in BOOLEAN :
              /\ remote' = [remote EXCEPT ![file_id(r)] =
                              Uploaded(@, fs[temp_file[r]], completed)]
              /\ IF completed
                 THEN /\ Goto(r, AfterStage("upload_excel", TRUE))
                      /\ trace' = [trace EXCEPT ![r] = @ \o <<"ul_media", "ul_return">>]
                      /\ UNCHANGED err
                 ELSE Raise(r, "Upload transfer failed") /\ Log(r, "ul_media")
    /\ UNCHANGED <<locals, fh, response, fs, received, inspected, report>>

\* ------------------------------------------------------------------ clean up

\* os.remove(path) on a file that exists.
Removed(file) == NoFile

\* `if os.path.exists(temp_file):` after the stages, inside the try block.
CleanupExists(r) ==
    /\ pc[r] = "cl_exists"
    /\ Log(r, "cl_exists")
    /\ IF fs[temp_file[r]].exists
       THEN Goto(r, "cl_remove") /\ UNCHANGED response
       ELSE ReturnSuccess(r)
    /\ UNCHANGED <<locals, fh, err, fs, remote, received, inspected, report>>

\* `os.remove(temp_file)` inside the try block: FileNotFoundError when the
\* file is gone, which the handler's own except block catches.
CleanupRemove(r) ==
    /\ pc[r] = "cl_remove"
    /\ Log(r, "cl_remove")
    /\ IF fs[temp_file[r]].exists
       THEN /\ fs' = [fs EXCEPT ![temp_file[r]] = Removed(@)]
            /\ ReturnSuccess(r)
            /\ UNCHANGED err
       ELSE /\ Raise(r, "FileNotFoundError")
            /\ UNCHANGED <<fs, response>>
    /\ UNCHANGED <<locals, fh, remote, received, inspected, report>>

\* Mutant: the except block answers without cleaning up.
ExceptExists_NoCleanup(r) ==
    /\ pc[r] = "ex_exists"
    /\ Log(r, "ex_exists")
    /\ ReturnError(r)
    /\ UNCHANGED <<locals, fh, err, fs, remote, received, inspected, report>>

\* except Exception: `if 'temp_file' in locals() and os.path.exists(temp_file)`
ExceptExists(r) ==
    /\ pc[r] = "ex_exists"
    /\ Log(r, "ex_exists")
    /\ IF temp_file[r] # <<>> /\ fs[temp_file[r]].exists
       THEN Goto(r, "ex_remove") /\ UNCHANGED response
       ELSE ReturnError(r)
    /\ UNCHANGED <<locals, fh, err, fs, remote, received, inspected, report>>

\* `os.remove(temp_file)` inside the except block: a FileNotFoundError here
\* is caught by nothing, and leaves the handler (or ends the thread).
ExceptRemove(r) ==
    /\ pc[r] = "ex_remove"
    /\ Log(r, "ex_remove")
    /\ IF fs[temp_file[r]].exists
       THEN /\ fs' = [fs EXCEPT ![temp_file[r]] = Removed(@)]
            /\ ReturnError(r)
            /\ UNCHANGED err
       ELSE /\ pc' = [pc EXCEPT ![r] = "crashed"]
            /\ err' = [err EXCEPT ![r] = "FileNotFoundError"]
            /\ UNCHANGED <<fs, response>>
    /\ UNCHANGED <<locals, fh, remote, received, inspected, report>>

\* ------------------------------------------------------------ specification

\* The handler (or background thread) of the request in slot r executes its
\* next statement.
HandlerStep(r) ==
    \/ Authenticate(r)
    \/ DownloadMetadata(r)
    \/ DownloadOpen(r)
    \/ DownloadChunks(r)
    \/ DownloadSizeCheck(r)
    \/ UpdateLoad(r)
    \/ UpdateSave(r)
    \/ UpdateVerify(r)
    \/ UploadMetadata(r)
    \/ UploadSizeCheck(r)
    \/ UploadChunks(r)
    \/ CleanupExists(r)
    \/ CleanupRemove(r)
    \/ ExceptExists(r)
    \/ ExceptRemove(r)

\* One step of slot r: a request arrives, or its handler takes a step.
RunStep(r) ==
    \/ \E d \in Requests : RootPost(r, d)
    \/ \E d \in Requests : UpdateExcelApi(r, d)
    \/ HandlerStep(r)

Next == \E r \in Runs : RunStep(r)

Spec == Init /\ [][Next]_vars

\* The service used by one caller at a time: every request is handled in
\* slot "r1", the next one arrives after the handler (or thread) has ended.
\* /tmp may hold stale files when the service starts.
NextSeq == RunStep("r1")

SpecSeq == InitStale /\ [][NextSeq]_vars

\* ---- GET /diagnose next to the update entry points

\* Identifiers callers send to /diagnose and to /update-excel here: a Drive
\* identifier may end in "_diagnostic" ([A-Za-z0-9_-] are its characters).
DiagnoseIds == {<<"abc">>, <<"xyz">>}
UpdateIds == {<<"abc">>, <<"abc", "_diagnostic">>}

DiagnosePaths ==
    {DiagnosticFile(id) : id \in DiagnoseIds} \cup {TempFile(id) : id \in UpdateIds}

\* The member names of a workbook archive that load_workbook accepts.
WorkbookNames ==
    {<<"[Content_Types].xml">>, <<"xl/workbook.xml">>, <<"xl/worksheets/sheet", "1.xml">>}

\* A file of the filesystem as diagnose_excel_file sees it.
FileView(file) ==
    [exists |-> file.exists, size |-> file.size,
     kind |-> IF file.zip THEN "zip" ELSE "badzip",
     names |-> IF file.zip THEN WorkbookNames ELSE {}]

InitDiagnose ==
    /\ InitRuns
    /\ inspected = NoInspected
    /\ fs = [p \in DiagnosePaths |-> NoFile]
    /\ remote \in {m \in [DiagnoseIds \cup UpdateIds ->
                              {GoodDoc, NoSheetDoc, SmallDoc, NotExcelDoc, NoFile}] :
                      \A id \in DOMAIN m : m[id] \in InitialDocs(id)}

\* diagnose_endpoint(): `if not file_id` answers 400; otherwise temp_file is
\* assigned inside the try block.
DiagnoseGet(r, id) ==
    /\ r = "r2"
    /\ Free(r)
    /\ received < MaxRequests
    /\ entry' = [entry EXCEPT ![r] = "/diagnose"]
    /\ data' = [data EXCEPT ![r] = IF id = NoKey THEN NoData ELSE ("file_id" :> id)]
    /\ err' = [err EXCEPT ![r] = ""]
    /\ trace' = [trace EXCEPT ![r] = <<>>]
    /\ fh' = [fh EXCEPT ![r] = 0]
    /\ received' = received + 1
    /\ report' = NoReport
    /\ IF id \in {NoKey, <<>>}
       THEN /\ temp_file' = [temp_file EXCEPT ![r] = <<>>]
            /\ pc' = [pc EXCEPT ![r] = "done"]
            /\ response' = [response EXCEPT ![r] = Response("", "No file_id provided", 400)]
       ELSE /\ temp_file' = [temp_file EXCEPT ![r] = DiagnosticFile(id)]
            /\ pc' = [pc EXCEPT ![r] = "auth"]
            /\ response' = [response EXCEPT ![r] = NoResponse]
    /\ UNCHANGED <<update_success, wb, loaded, fs, remote, inspected>>

\* service.files().get(fileId, fields='name,mimeType,size').execute() in the
\* handler: a failure goes to the handler's except block.
DiagnoseMetadata(r) ==
    /\ pc[r] = "dg_meta"
    /\ Log(r, "dg_meta")
    /\ \E reachable \in BOOLEAN :
         IF reachable /\ remote[file_id(r)].exists
         THEN Goto(r, "dl_meta") /\ UNCHANGED err
         ELSE Raise(r, "File metadata request failed")
    /\ UNCHANGED <<locals, fh, response, fs, remote, received, inspected, report>>

\* download_excel raised: download_success = False, and the handler answers
\* 500 with download_error from the else branch.
DiagnoseDownloadFailed(r) ==
    /\ pc[r] = "dg_failed"
    /\ Log(r, "dg_failed")
    /\ ReturnError(r)
    /\ UNCHANGED <<locals, fh, err, fs, remote, received, inspected, report>>

\* diagnostic_results = diagnose_excel_file(temp_file)
DiagnoseInspect(r) ==
    /\ pc[r] = "dg_inspect"
    /\ Log(r, "dg_inspect")
    /\ report' = DiagnoseExcelFile(FileView(fs[temp_file[r]]))
    /\ Goto(r, AfterCall(r, "diagnose_excel_file", TRUE))
    /\ UNCHANGED <<locals, fh, err, response, fs, remote, received, inspected>>

\* /update-excel is served in slot "r1" and /diagnose in slot "r2".
NextDiagnose ==
    \/ \E id \in UpdateIds :
          UpdateExcelApi("r1", Request(id, [projectName |-> <<"Tower One">>]))
    \/ \E id \in DiagnoseIds \cup {NoKey, <<>>} : DiagnoseGet("r2", id)
    \/ \E r \in Runs :
          \/ HandlerStep(r)
          \/ DiagnoseMetadata(r)
          \/ DiagnoseDownloadFailed(r)
          \/ DiagnoseInspect(r)

SpecDiagnose == InitDiagnose /\ [][NextDiagnose]_vars

\* ---- diagnose_excel_file on its own

\* diagnose_excel_file is called on the path of some file.
InitInspect ==
    /\ InitRuns
    /\ fs = [p \in Paths |-> NoFile]
    /\ remote = [id \in FileIds |-> NoFile]
    /\ inspected \in InspectedFiles

\* The call returns. The function opens the file for reading only.
Diagnose ==
    /\ report = NoReport
    /\ report' = DiagnoseExcelFile(inspected)
    /\ UNCHANGED <<pc, entry, data, temp_file, update_success, wb, fh, err, response,
                   trace, loaded, fs, remote, received, inspected>>

NextInspect == Diagnose

SpecInspect == InitInspect /\ [][NextInspect]_vars

\* ---- transfers that never complete

\* request.next_chunk() of the download loop blocks: the server never sends
\* the chunk. Nothing bounds the call (REQUEST_TIMEOUT is not passed to the
\* client, timeout_handler is installed for no signal), so the handler stays
\* in it, its handle open.
DownloadHangs(r) ==
    /\ pc[r] = "dl_chunks"
    /\ Log(r, "dl_media")
    /\ Goto(r, "dl_blocked")
    /\ UNCHANGED <<locals, fh, err, response, fs, remote, received, inspected, report>>

\* wb.save(path) blocks (a stalled disk or network mount) after it opened
\* the path for writing.
SaveHangs(r) ==
    /\ pc[r] = "mu_save"
    /\ Log(r, "mu_save")
    /\ fs' = [fs EXCEPT ![temp_file[r]] = OpenForWriting(@, FreshIno)]
    /\ Goto(r, "mu_blocked")
    /\ UNCHANGED <<locals, fh, err, response, remote, received, inspected, report>>

\* request.next_chunk() of the upload loop blocks before the last chunk is
\* accepted.
UploadHangs(r) ==
    /\ pc[r] = "ul_chunks"
    /\ fs[temp_file[r]].exists
    /\ Log(r, "ul_media")
    /\ Goto(r, "ul_blocked")
    /\ UNCHANGED <<locals, fh, err, response, fs, remote, received, inspected, report>>

NextTimeout ==
    \/ RunStep("r1")
    \/ DownloadHangs("r1")
    \/ SaveHangs("r1")
    \/ UploadHangs("r1")

\* Every handler and thread that can execute a statement does so eventually.
SpecTimeout == Init /\ [][NextTimeout]_vars /\ WF_vars(NextTimeout)

\* ------------------------------------------------------------ the claims

\* The calls a run has made so far.
Events(r) == {trace[r][i] : i \in DOMAIN trace[r]}

\* The run passed input validation (temp_file is assigned right after it).
Validated(r) == temp_file[r] # <<>>

\* The run is between its start and its end.
Active(r) == pc[r] \notin {"idle", "done", "crashed"}

TransferEvents == {"dl_meta", "dl_media", "ul_meta", "ul_media"}
UploadEvents == {"ul_meta", "ul_size", "ul_open", "ul_media", "ul_return"}
UpdateEvents == {"mu_load", "mu_save", "mu_verify", "mu_noop", "mu_updated"}

\* C1: once a run that passed input validation has ended, whatever stage
\* failed or succeeded, no scratch file exists at its path, unless another
\* run with the same identifier is in progress.
C1_CleanupInvariant ==
    \A r \in Runs :
        (/\ Ended(r)
         /\ Validated(r)
         /\ ~\E s \in Runs \ {r} : Active(s) /\ temp_file[s] = temp_file[r])
        => ~fs[temp_file[r]].exists

\* C1 witness: a run created its scratch file, a later stage failed, the run
\* has ended and the file is gone.
C1_Witness ==
    \E r \in Runs :
        /\ Ended(r)
        /\ "dl_open" \in Events(r)
        /\ err[r] = "Excel file appears to be corrupted after save operation"
        /\ ~fs[temp_file[r]].exists

\* The request has an identifier and no mapped field with a non-empty value.
NothingToUpdate(r) ==
    /\ Validated(r)
    /\ \A field \in {"projectName", "projectNumber", "branch"} : Get(data[r], field) = <<>>

NoOpResponse == Response("success", "No updates were made", 200)

\* C2 as stated: a request with an identifier and nothing to update makes
\* no metadata call, no download and no upload, and its outcome is no-op.
C2_NoTransferAtAll ==
    \A r \in Runs :
        NothingToUpdate(r) =>
            /\ Events(r) \cap TransferEvents = {}
            /\ (pc[r] = "done" /\ entry[r] = "/update-excel") => response[r] = NoOpResponse

\* C2 amended: a request with an identifier and nothing to update never
\* calls upload_excel and is never reported as updated; update_excel returns
\* False for it only after the metadata call and the download have been made.
C2_NoUpload ==
    \A r \in Runs :
        NothingToUpdate(r) =>
            /\ Events(r) \cap UploadEvents = {}
            /\ ~update_success[r]
            /\ response[r].status = "success" => response[r] = NoOpResponse
            /\ "mu_noop" \in Events(r) => {"dl_meta", "dl_media"} \subseteq Events(r)

\* C2 witness: a request with nothing to update was answered no-op, after
\* its document was downloaded.
C2_Witness ==
    \E r \in Runs :
        /\ NothingToUpdate(r)
        /\ response[r] = NoOpResponse
        /\ "dl_media" \in Events(r)

\* C3: upload_excel is called only after update_excel returned True; a run
\* whose update raised (the failed re-open verification included) or
\* returned False has made no call of upload_excel.
C3_UploadOnlyWhenUpdated ==
    \A r \in Runs :
        (Events(r) \cap UploadEvents # {} \/ pc[r] \in {"ul_meta", "ul_size", "ul_chunks"})
        => (update_success[r] /\ "mu_updated" \in Events(r))

\* C3 witness: the file was saved, the verification failed, and the run
\* ended in error without an upload.
C3_Witness ==
    \E r \in Runs :
        /\ pc[r] = "done"
        /\ "mu_save" \in Events(r)
        /\ response[r] = Response("error", "Excel file appears to be corrupted after save operation", 500)
        /\ Events(r) \cap UploadEvents = {}

\* The stage an event belongs to, in the order of the pipeline.
StageRank(event) ==
    CASE event = "authenticate" -> 0
      [] event \in {"dl_meta", "dl_open", "dl_media", "dl_size", "dl_return"} -> 1
      [] event \in UpdateEvents -> 2
      [] event \in UploadEvents -> 3
      [] OTHER -> 4

\* C4: in every run the calls are in stage order (download, update, upload,
\* clean up), update_excel starts only after download_excel has returned, and
\* upload_excel only after update_excel has returned True.
C4_StagesOrdered ==
    \A r \in Runs :
        \A j \in DOMAIN trace[r] :
            /\ \A i \in 1..(j - 1) : StageRank(trace[r][i]) <= StageRank(trace[r][j])
            /\ trace[r][j] \in UpdateEvents => \E i \in 1..(j - 1) : trace[r][i] = "dl_return"
            /\ trace[r][j] \in UploadEvents => \E i \in 1..(j - 1) : trace[r][i] = "mu_updated"

\* C4 witness: a run went through download, update and upload.
C4_Witness ==
    \E r \in Runs : {"dl_return", "mu_updated", "ul_return"} \subseteq Events(r)

\* The cells of the sheet are as C5 says they are after update_excel has
\* returned True for `input_data` on a sheet that held `before`.
CellsAsClaimed(after, before, input_data) ==
    LET mapped == {field \in DOMAIN EXCEL_CELL_MAP : Mappable(input_data, field)}
        targets == {EXCEL_CELL_MAP[field] : field \in mapped}
        others == DOMAIN input_data \ DOMAIN EXCEL_CELL_MAP
    IN  /\ \A field \in mapped : after[EXCEL_CELL_MAP[field]] = PlainCell(input_data[field])
        /\ \A c \in Cells \ targets : after[c] = before[c]
        /\ \A k \in others, c \in Cells : after[c].v = input_data[k] => before[c].v = input_data[k]

\* C5: when update_excel returns True, the file holds the supplied value in
\* the cell of every mapped non-empty field, every other cell is as it was in
\* the file that was opened, and no other key's value has been written.
C5_OnlyMappedCellsChange ==
    [][\A r \in Runs :
          (pc[r] = "mu_verify" /\ pc'[r] = "ul_meta")
          => CellsAsClaimed(fs[temp_file[r]].cells, loaded[r].cells, data[r])]_vars

\* C6: a file below the minimum size makes download_excel raise after the
\* download and upload_excel raise before any byte is uploaded (the remote
\* document is left alone), and both use the same threshold.
C6_SizeThreshold ==
    /\ DOWNLOAD_MIN_SIZE = UPLOAD_MIN_SIZE
    /\ [][\A r \in Runs :
            LET file == fs[temp_file[r]] IN
            /\ (pc[r] = "dl_size" /\ pc'[r] # "dl_size"
                  /\ file.exists /\ file.size < DOWNLOAD_MIN_SIZE)
               => (pc'[r] = "ex_exists"
                     /\ err'[r] = "Downloaded file appears corrupt (too small)")
            /\ (pc[r] = "ul_size" /\ pc'[r] # "ul_size"
                  /\ file.exists /\ file.size < DOWNLOAD_MIN_SIZE)
               => (pc'[r] = "ex_exists"
                     /\ err'[r] = "File appears too small to be a valid Excel file"
                     /\ remote' = remote)
            /\ (err[r] = "File appears too small to be a valid Excel file")
               => "ul_media" \notin Events(r)]_vars

\* C6 witness: upload_excel rejected a file below the threshold.
C6_Witness ==
    \E r \in Runs :
        /\ err[r] = "File appears too small to be a valid Excel file"
        /\ "ul_size" \in Events(r)
        /\ "ul_media" \notin Events(r)

\* C7: a request whose identifier is missing or empty is answered 400 with
\* status error at once, on both entry points; it makes no call at all
\* (no authentication, no remote call, no file operation) and no
\* background run is started for it.
C7_MissingIdRejected ==
    \A r \in Runs :
        (pc[r] # "idle" /\ Get(data[r], FILE_ID_KEY) = <<>>)
        => /\ pc[r] = "done"
           /\ response[r].status = "error"
           /\ response[r].code = 400
           /\ trace[r] = <<>>
           /\ ~Validated(r)

\* C7 witness: POST / has rejected a request that carried mapped fields and
\* an empty identifier, after an earlier request had been received.
C7_Witness ==
    \E r \in Runs :
        /\ entry[r] = "/"
        /\ received = MaxRequests
        /\ FILE_ID_KEY \in DOMAIN data[r] /\ data[r][FILE_ID_KEY] = <<>>
        /\ UpdatesCount(data[r]) > 0
        /\ response[r] = Response("error", "No file ID provided", 400)
        /\ pc[r] = "done"

\* The run left the try block by an exception raised in one of the stages
\* (not in the clean up that follows them).
StageFailed(r) == "ex_exists" \in Events(r) /\ "cl_exists" \notin Events(r)

\* C8: a run in which a stage failed executes no later stage, cleans up and
\* ends Failed; on /update-excel the answer is status error, code 500, with
\* the message of the error that the stage raised.
C8_StageErrorAborts ==
    \A r \in Runs :
        StageFailed(r)
        => /\ \A i, j \in DOMAIN trace[r] :
                (trace[r][i] = "ex_exists" /\ i < j) => trace[r][j] \in {"ex_exists", "ex_remove"}
           /\ Ended(r)
              => /\ pc[r] = "done"
                 /\ (\E s \in Runs \ {r} : Active(s) /\ temp_file[s] = temp_file[r])
                    \/ ~fs[temp_file[r]].exists
                 /\ entry[r] = "/update-excel" => response[r] = Response("error", err[r], 500)

\* C9: the remote document changes only in the step in which a run's
\* upload completes; a run whose upload fails, or that never reaches the
\* upload, leaves every remote document as it was.
C9_RemoteChangedOnlyByCompletedUpload ==
    [][\A id \in FileIds :
          remote'[id] # remote[id]
          => \E r \in Runs :
                /\ file_id(r) = id
                /\ pc[r] = "ul_chunks"
                /\ pc'[r] = "cl_exists"
                /\ "ul_return" \in Events(r)']_vars

\* C9 witness: a run's upload failed partway and the remote document is
\* still the initial one.
C9_Witness ==
    \E r \in Runs :
        /\ Ended(r)
        /\ "ul_media" \in Events(r)
        /\ "ul_return" \notin Events(r)
        /\ remote[file_id(r)] \in InitialDocs(file_id(r))

\* C10: every request on /update-excel ends with a structured answer whose
\* code is 200, 400, 500 or 504; no exception leaves the handler.
C10_AlwaysStructuredOutcome ==
    \A r \in Runs :
        (Ended(r) /\ entry[r] = "/update-excel")
        => /\ pc[r] = "done"
           /\ response[r].status \in {"success", "error"}
           /\ response[r].code \in {200, 400, 500, 504}

\* C11: every run that has started eventually reaches its clean up and a
\* terminal state, even when a transfer or the save never completes: the
\* stage is abandoned after the timeout.
C11_EveryRunEnds ==
    \A r \in Runs :
        Active(r) ~> (Ended(r) /\ Events(r) \cap {"cl_exists", "ex_exists"} # {})

\* The recognized fields of a run's request that carry a value, and whether
\* a sheet holds each of these values in the cell mapped to its field.
Recognized(r) ==
    {field \in {"projectName", "projectNumber", "branch"} : Get(data[r], field) # <<>>}
HoldsRequest(cells, r) ==
    \A field \in Recognized(r) :
        cells[EXCEL_CELL_MAP[field]] = PlainCell(data[r][field])

\* C12: the step in which a run's upload completes leaves a remote document
\* whose recognized cells hold the values of the run's request (a later
\* fetch reads them back); and when the document already held them (the
\* same request had been run before), that step leaves every cell of the
\* document as it was.
C12_RoundTripIdempotent ==
    [][\A r \in Runs :
          ("ul_return" \notin Events(r) /\ "ul_return" \in Events(r)')
          => LET before == remote[file_id(r)].cells
                 after == remote'[file_id(r)].cells
             IN  /\ HoldsRequest(after, r)
                 /\ HoldsRequest(before, r) => after = before]_vars

\* C13: whatever the file at the given path is (missing, too small, no
\* archive, an archive that lacks members, a valid workbook),
\* diagnose_excel_file returns a report that holds the list of issues
\* (errors) and the summary (assessment).
C13_ReportHasIssuesAndAssessment ==
    report # NoReport => {"errors", "assessment"} \subseteq DOMAIN report

\* C14: a failed metadata existence check does not abort the fetch: after
\* the check, whatever its result, download_excel goes on to open the
\* scratch file and attempt the byte transfer.
C14_FailedCheckNotFatal ==
    \A r \in Runs :
        (trace[r] # <<>> /\ trace[r][Len(trace[r])] = "dl_meta") => pc[r] = "dl_open"

\* C14 as amended: a failed metadata existence check aborts the fetch.
\* download_excel raises "Unable to access file with ID" at once: the
\* scratch file is not opened and no byte transfer is attempted; a failure
\* of the transfer or of the size check makes download_excel fail as well.
C14_FailedCheckAbortsFetch ==
    \A r \in Runs :
        /\ (Validated(r) /\ ~remote[file_id(r)].exists)
           => /\ Events(r) \cap {"dl_open", "dl_media", "dl_size", "dl_return"} = {}
              /\ "dl_meta" \in Events(r)
                 => /\ ~Active(r) \/ pc[r] \in {"ex_exists", "ex_remove"}
                    /\ err[r] \in {"Unable to access file with ID", "FileNotFoundError"}
        /\ err[r] = "Unable to access file with ID"
           => Events(r) \cap {"dl_open", "dl_media"} = {}
        /\ err[r] \in {"Download transfer failed",
                       "Downloaded file appears corrupt (too small)"}
           => "dl_return" \notin Events(r)

\* C14 witness: a run on an identifier the remote store does not hold was
\* answered 500 after the metadata check, without any byte transfer.
C14_Witness ==
    \E r \in Runs :
        /\ Validated(r)
        /\ ~remote[file_id(r)].exists
        /\ response[r] = Response("error", "Unable to access file with ID", 500)
        /\ "dl_meta" \in Events(r)
        /\ "dl_media" \notin Events(r)

\* C15: when the local file is below the minimum size, upload_excel fails
\* before any network call: neither the metadata request nor an upload
\* request has been issued by the run.
C15_FailsBeforeAnyNetworkCall ==
    \A r \in Runs :
        err[r] = "File appears too small to be a valid Excel file"
        => Events(r) \cap {"ul_meta", "ul_media"} = {}

\* C15 as amended: upload_excel issues its metadata request first; when the
\* local file is then found below the minimum size it fails before the
\* media upload is built, so that no upload request is issued and the
\* remote document is left alone.
C15_FailsAfterMetadataBeforeUpload ==
    /\ [][\A r \in Runs :
            LET file == fs[temp_file[r]] IN
            (pc[r] = "ul_size" /\ pc'[r] # "ul_size"
               /\ file.exists /\ file.size < UPLOAD_MIN_SIZE)
            => /\ "ul_meta" \in Events(r)
               /\ pc'[r] = "ex_exists"
               /\ err'[r] = "File appears too small to be a valid Excel file"
               /\ Events(r)' \cap {"ul_open", "ul_media", "ul_return"} = {}
               /\ remote' = remote]_vars
    /\ [](\A r \in Runs :
            err[r] = "File appears too small to be a valid Excel file"
            => /\ "ul_meta" \in Events(r)
               /\ Events(r) \cap {"ul_open", "ul_media", "ul_return"} = {})

\* C15 witness: /update-excel answered 500 for a saved file below the
\* minimum size, after the run's metadata request.
C15_Witness ==
    \E r \in Runs :
        /\ response[r] =
             Response("error", "File appears too small to be a valid Excel file", 500)
        /\ "ul_meta" \in Events(r)
        /\ "mu_updated" \in Events(r)
        /\ "ul_media" \notin Events(r)

\* C16: a failure to delete the scratch file during clean up is tolerated:
\* a run whose download, update and upload succeeded ends in success (200,
\* status success on /update-excel; no exception in the background thread).
C16_CleanupFailureTolerated ==
    \A r \in Runs :
        (Ended(r) /\ "ul_return" \in Events(r))
        => /\ pc[r] = "done"
           /\ err[r] = ""
           /\ entry[r] = "/update-excel"
              => response[r] = Response("success", "Excel file updated successfully", 200)

\* C17: from the step in which a run creates its scratch file until the run
\* ends, the file at its path is changed (truncated, rewritten, deleted) by
\* steps of that run only, in every interleaving.
C17_ScratchFileExclusive ==
    [][\A r \in Runs :
          (/\ Active(r)
           /\ "dl_open" \in Events(r)
           /\ fs'[temp_file[r]] # fs[temp_file[r]])
          => pc'[r] # pc[r]]_vars

\* C18: two requests in progress whose identifiers differ, on whichever of
\* the entry points POST /, POST /update-excel and GET /diagnose, have
\* different scratch paths.
C18_DistinctIdsDistinctPaths ==
    \A r, s \in Runs :
        (/\ Active(r) /\ Validated(r)
         /\ Active(s) /\ Validated(s)
         /\ file_id(r) # file_id(s))
        => temp_file[r] # temp_file[s]

\* C19: whatever the scratch path held before the run, when download_excel
\* has returned the file at the path holds exactly the remote document:
\* its bytes (size, content) and nothing of what was there before.
C19_StaleFileOverwritten ==
    [][\A r \in Runs :
          (pc[r] = "dl_size" /\ pc'[r] = "mu_load")
          => [fs'[temp_file[r]] EXCEPT !.ino = 0] = remote'[file_id(r)]]_vars

\* C19 witness: the first request's download has returned, and the file it
\* wrote is the stale file that was at the path (truncated, not replaced:
\* the inode is the stale file's).
C19_Witness ==
    \E r \in Runs :
        /\ pc[r] = "mu_load"
        /\ received = 1
        /\ fs[temp_file[r]].ino = StaleFile(file_id(r)).ino
        /\ fs[temp_file[r]].cells = TemplateCells

\* C20: update_excel checks the sheet before it counts the recognized
\* fields. On a workbook without sheet 'Project Setup Form' it raises for
\* every request, one without recognized fields included (no no-op); on a
\* workbook with the sheet and a request without recognized non-empty
\* fields it returns False (no-op) without saving or re-opening the file,
\* which is left as it was.
C20_SheetCheckedBeforeFieldCount ==
    /\ [][\A r \in Runs :
            LET file == fs[temp_file[r]] IN
            (pc[r] = "mu_load" /\ pc'[r] # "mu_load" /\ file.exists /\ file.zip)
            => /\ ~file.sheet
                  => /\ pc'[r] = "ex_exists"
                     /\ err'[r] =
                          "Required sheet 'Project Setup Form' not found in the Excel file"
                     /\ "mu_noop" \notin Events(r)'
               /\ (file.sheet /\ Recognized(r) = {})
                  => /\ pc'[r] = "cl_exists"
                     /\ ~update_success'[r]
                     /\ "mu_noop" \in Events(r)'
                     /\ Events(r)' \cap {"mu_save", "mu_verify"} = {}
                     /\ fs' = fs]_vars
    /\ [](\A r \in Runs :
            "mu_noop" \in Events(r)
            => Events(r) \cap {"mu_save", "mu_verify", "mu_updated"} = {})

\* C20 witness: a request without any recognized field, on a workbook
\* without the sheet, was answered 500 with the sheet error.
C20_Witness ==
    \E r \in Runs :
        /\ Validated(r)
        /\ Recognized(r) = {}
        /\ "mu_load" \in Events(r)
        /\ "mu_noop" \notin Events(r)
        /\ response[r] =
             Response("error",
                      "Required sheet 'Project Setup Form' not found in the Excel file", 500)

\* C21: at the step in which diagnose_endpoint returns its response to a
\* GET /diagnose request with a non-empty file_id (diagnostics returned,
\* download failed, or any other exception), no file exists at
\* /tmp/<file_id>_diagnostic.xlsx.
C21_NoDiagnosticFileLeft ==
    [][\A r \in Runs :
          (/\ entry[r] = "/diagnose"
           /\ Validated(r)
           /\ pc[r] # "done"
           /\ pc'[r] = "done")
          => ~fs'[DiagnosticFile(file_id(r))].exists]_vars

====
